---- MODULE Spec2Model ----
(***************************************************************************)
(* Model of src/App.tsx: the App component of the file renamer.            *)
(*                                                                         *)
(* Strings are sequences of one-character strings, so that trim, split,    *)
(* replace and template concatenation are computed as JavaScript computes  *)
(* them.  A File.lastModified timestamp t (milliseconds since the epoch)   *)
(* is kept as the pair [day, ms] with t = day * 86400000 + ms and          *)
(* 0 <= ms < 86400000, because TLC's integers are 32 bits wide.            *)
(*                                                                         *)
(* One action is one browser task: a user event handler together with the  *)
(* re-render and the effects React flushes before the next task, or one    *)
(* timer callback.                                                         *)
(***************************************************************************)
EXTENDS Integers, Sequences, FiniteSets, TLC

(***************************************************************************)
(* Bounds of the exploration.                                              *)
(***************************************************************************)
\* The number of user events (handler calls and the unmount) in one run.
MaxEvents == 3

(***************************************************************************)
(* Strings.                                                                *)
(***************************************************************************)
Undefined == 0

IsWhite(c) == c \in {" ", "\t", "\n"}

RECURSIVE TrimStart(_)
TrimStart(s) ==
    IF s # <<>> /\ IsWhite(Head(s)) THEN TrimStart(Tail(s)) ELSE s

RECURSIVE TrimEnd(_)
TrimEnd(s) ==
    IF s # <<>> /\ IsWhite(s[Len(s)])
    THEN TrimEnd(SubSeq(s, 1, Len(s) - 1))
    ELSE s

\* String.prototype.trim
Trim(s) == TrimEnd(TrimStart(s))

\* Mutant of RemoveDashes: replace('-', ''), only the first dash goes.
RECURSIVE RemoveFirstDash(_)
RemoveFirstDash(s) ==
    IF s = <<>> THEN <<>>
    ELSE IF Head(s) = "-" THEN Tail(s)
    ELSE <<Head(s)>> \o RemoveFirstDash(Tail(s))

\* String.prototype.replace(/-/g, '')
RECURSIVE RemoveDashes(_)
RemoveDashes(s) ==
    IF s = <<>> THEN <<>>
    ELSE IF Head(s) = "-" THEN RemoveDashes(Tail(s))
    ELSE <<Head(s)>> \o RemoveDashes(Tail(s))

\* String.prototype.split(sep) for a one-character separator
RECURSIVE SplitFrom(_, _, _)
SplitFrom(s, sep, cur) ==
    IF s = <<>> THEN <<cur>>
    ELSE IF Head(s) = sep THEN <<cur>> \o SplitFrom(Tail(s), sep, <<>>)
    ELSE SplitFrom(Tail(s), sep, cur \o <<Head(s)>>)

Split(s, sep) == SplitFrom(s, sep, <<>>)

\* Array.prototype.join(sep)
RECURSIVE Join(_, _)
Join(parts, sep) ==
    IF parts = <<>> THEN <<>>
    ELSE IF Len(parts) = 1 THEN parts[1]
    ELSE parts[1] \o <<sep>> \o Join(Tail(parts), sep)

\* String.prototype.startsWith
StartsWith(s, prefix) ==
    /\ Len(s) >= Len(prefix)
    /\ SubSeq(s, 1, Len(prefix)) = prefix

\* String.prototype.includes
Includes(s, sub) ==
    \E i \in 1..(Len(s) - Len(sub) + 1) : SubSeq(s, i, i + Len(sub) - 1) = sub

(***************************************************************************)
(* new Date(t).toISOString().split('T')[0]                                 *)
(***************************************************************************)
DigitChar(d) == <<"0", "1", "2", "3", "4", "5", "6", "7", "8", "9">>[d + 1]

RECURSIVE Digits(_, _)
Digits(n, width) ==
    IF width = 0 THEN <<>>
    ELSE Digits(n \div 10, width - 1) \o <<DigitChar(n % 10)>>

\* The proleptic Gregorian date of day number `day` (days since 1970-01-01).
CivilFromDays(day) ==
    LET z == day + 719468
        era == z \div 146097
        doe == z - era * 146097
        yoe == (doe - doe \div 1460 + doe \div 36524 - doe \div 146096) \div 365
        doy == doe - (365 * yoe + yoe \div 4 - yoe \div 100)
        mp == (5 * doy + 2) \div 153
        d == doy - (153 * mp + 2) \div 5 + 1
        m == IF mp < 10 THEN mp + 3 ELSE mp - 9
        y == yoe + era * 400 + (IF m <= 2 THEN 1 ELSE 0)
    IN  [year |-> y, month |-> m, date |-> d]

\* The part of toISOString() before 'T': YYYY-MM-DD, or a signed six-digit
\* year outside 0..9999.  The time of day `ms` does not reach the result.
ToISODate(lastModified) ==
    LET c == CivilFromDays(lastModified.day)
        yy == IF c.year >= 0 /\ c.year <= 9999 THEN Digits(c.year, 4)
              ELSE IF c.year < 0 THEN <<"-">> \o Digits(0 - c.year, 6)
              ELSE <<"+">> \o Digits(c.year, 6)
    IN  yy \o <<"-">> \o Digits(c.month, 2) \o <<"-">> \o Digits(c.date, 2)

(***************************************************************************)
(* The four rename formats.                                                *)
(***************************************************************************)
S_date_codename_name ==
    <<"d","a","t","e","_","c","o","d","e","n","a","m","e","_","n","a","m","e">>
S_date_name == <<"d","a","t","e","_","n","a","m","e">>
S_codename_date_name ==
    <<"c","o","d","e","n","a","m","e","_","d","a","t","e","_","n","a","m","e">>
S_name_date == <<"n","a","m","e","_","d","a","t","e">>

renameFormats ==
    <<S_date_codename_name, S_date_name, S_codename_date_name, S_name_date>>

S_CODENAME == <<"C","O","D","E","N","A","M","E">>
S_PROJECT == <<"P","R","O","J","E","C","T">>
S_codename == <<"c","o","d","e","n","a","m","e">>
S_imagePrefix == <<"i","m","a","g","e","/">>

\* Mutant of CodeOf: the codename is not trimmed.
CodeOfNoTrim(cn) == IF cn # <<>> THEN cn ELSE S_CODENAME

\* const code = codename.trim() || 'CODENAME'
CodeOf(cn) == IF Trim(cn) # <<>> THEN Trim(cn) ELSE S_CODENAME

\* Mutant of NameDate: the name is split at its first '.'.
NameDateFirstDot(name, date) ==
    LET parts == Split(name, ".")
    IN  IF Len(parts) > 1
        THEN parts[1] \o <<"_">> \o date \o <<".">> \o Join(Tail(parts), ".")
        ELSE name \o <<"_">> \o date

\* Mutant of NameDate: a name is split only when it has more than two parts.
NameDateOverTwoParts(name, date) ==
    LET parts == Split(name, ".")
    IN  IF Len(parts) > 2
        THEN Join(SubSeq(parts, 1, Len(parts) - 1), ".")
             \o <<"_">> \o date \o <<".">> \o parts[Len(parts)]
        ELSE name \o <<"_">> \o date

\* case 'name_date' of the map callback.
NameDate(name, date) ==
    LET parts == Split(name, ".")
    IN  IF Len(parts) > 1
        THEN Join(SubSeq(parts, 1, Len(parts) - 1), ".")
             \o <<"_">> \o date \o <<".">> \o parts[Len(parts)]
        ELSE name \o <<"_">> \o date

\* The body of the map callback of the name-generation effect.
GeneratedName(fmt, cn, dateForCalc, name) ==
    LET code == CodeOf(cn)
        date == RemoveDashes(dateForCalc)
    IN  IF fmt = S_date_codename_name
          THEN date \o <<"_">> \o code \o <<"_">> \o name
        ELSE IF fmt = S_date_name
          THEN date \o <<"_">> \o name
        ELSE IF fmt = S_codename_date_name
          THEN code \o <<"_">> \o date \o <<"_">> \o name
        ELSE IF fmt = S_name_date
          THEN NameDate(name, date)
        ELSE date \o <<"_">> \o name

(***************************************************************************)
(* Inputs: the files the user can select and the values the user can type. *)
(***************************************************************************)
S_imagePng == <<"i","m","a","g","e","/","p","n","g">>
S_textPlain == <<"t","e","x","t","/","p","l","a","i","n">>

F_image ==
    [name |-> <<"a", ".", "b">>,
     lastModified |-> [day |-> 19787, ms |-> 0],
     type |-> S_imagePng]
F_text ==
    [name |-> <<"R">>,
     lastModified |-> [day |-> 19724, ms |-> 86399999],
     type |-> S_textPlain]

Files == {F_image, F_text}

\* A FileList, or null.
NullList == [isNull |-> TRUE, items |-> <<>>]
FileList(fs) == [isNull |-> FALSE, items |-> fs]

FileListInputs ==
    {NullList,
     FileList(<<>>),
     FileList(<<F_image>>),
     FileList(<<F_text>>),
     FileList(<<F_image, F_text>>),
     FileList(<<F_text, F_image>>),
     FileList(<<F_image, F_text, F_image>>)}

NameInputs == {<<" ">>, <<"x", " ">>}
DateInputs == {<<>>, ToISODate([day |-> 11016, ms |-> 0])}
CodenameInputs == {S_PROJECT, <<" ">>}
Nows == {[day |-> 20762, ms |-> 43200000]}

(***************************************************************************)
(* State.                                                                  *)
(***************************************************************************)
VARIABLES
    renamedFiles,       \* useState<RenamedFile[]>
    codename,           \* useState<string>
    format,             \* useState<string>
    dateString,         \* useState<string>
    useSameDateForAll,  \* useState<boolean>
    mounted,            \* the component is mounted
    liveUrls,           \* the browser's object URLs created and not revoked
    nextUrl,            \* the next object URL URL.createObjectURL returns
    timers,             \* pending setTimeout callbacks, in registration order
    downloads,          \* the a.click() downloads triggered so far, in order
    exportCalls,        \* number of handleSaveAll calls so far
    events,             \* number of user events so far
    revokedAgain,       \* history: URLs revoked when no longer live
    edited,             \* history: indices hand-named since the last sweep
    lastOp              \* history: the task that ran last

vars ==
    <<renamedFiles, codename, format, dateString, useSameDateForAll, mounted,
      liveUrls, nextUrl, timers, downloads, exportCalls, events,
      revokedAgain, edited, lastOp>>

\* The record of a task: its name, an index (the entry edited, or the number
\* of entries or timers before the task), its input (a string, a FileList
\* or a boolean), and the hand-named indices before the task; also the
\* global date before the task, the task that ran before it, and the number
\* of handleSaveAll calls since the last other user event.
OpRecord(name, index, text, files, checked) ==
    [op |-> name, index |-> index, text |-> text, files |-> files,
     checked |-> checked, edits |-> edited,
     date |-> dateString, before |-> lastOp.op,
     streak |-> IF name = "handleSaveAll" THEN lastOp.streak + 1
                ELSE IF name \in {"timer", "clock", "unmount"}
                     THEN lastOp.streak
                     ELSE 0]

Op(name, index, text) == OpRecord(name, index, text, NullList, FALSE)

Init ==
    /\ renamedFiles = <<>>
    /\ codename = S_PROJECT
    /\ format = S_date_codename_name
    /\ dateString \in {ToISODate(now) : now \in Nows}
    /\ useSameDateForAll = TRUE
    /\ mounted = TRUE
    /\ liveUrls = {}
    /\ nextUrl = 1
    /\ timers = <<>>
    /\ downloads = <<>>
    /\ exportCalls = 0
    /\ events = 0
    /\ revokedAgain = {}
    /\ edited = {}
    /\ lastOp = [op |-> "mount", index |-> 0, text |-> <<>>,
                 files |-> NullList, checked |-> FALSE, edits |-> {},
                 date |-> <<>>, before |-> "mount", streak |-> 0]

(***************************************************************************)
(* The two effects.                                                        *)
(***************************************************************************)
\* URL.revokeObjectURL(url) on the browser's URL store.
RevokeObjectURL(b, url) ==
    IF url \in b.live
    THEN [b EXCEPT !.live = b.live \ {url}]
    ELSE [b EXCEPT !.again = b.again \cup {url}]

\* Mutant of CleanupObjectUrls: only the first entry's URL is revoked.
CleanupFirstOnly(files, b) ==
    IF files # <<>> /\ Head(files).previewUrl # Undefined
    THEN RevokeObjectURL(b, Head(files).previewUrl)
    ELSE b

\* The cleanup of the Object-URL effect: renamedFiles.forEach(rf => ...) over
\* the array the effect closed over.
RECURSIVE CleanupObjectUrls(_, _)
CleanupObjectUrls(files, b) ==
    IF files = <<>> THEN b
    ELSE CleanupObjectUrls(
             Tail(files),
             IF Head(files).previewUrl # Undefined
             THEN RevokeObjectURL(b, Head(files).previewUrl)
             ELSE b)

\* Mutant of GenerateNames: the rule is applied to the name the entry
\* carries, not to its file's name.
GenerateNamesFromNewName(currentFiles, fmt, cn, ds, same) ==
    [i \in 1..Len(currentFiles) |->
        [currentFiles[i] EXCEPT
            !.newName =
                GeneratedName(fmt, cn,
                              IF same THEN ds ELSE currentFiles[i].dateString,
                              currentFiles[i].newName)]]

\* The updater the name-generation effect passes to setRenamedFiles.
GenerateNames(currentFiles, fmt, cn, ds, same) ==
    [i \in 1..Len(currentFiles) |->
        [currentFiles[i] EXCEPT
            !.newName =
                GeneratedName(fmt, cn,
                              IF same THEN ds ELSE currentFiles[i].dateString,
                              currentFiles[i].originalFile.name)]]

\* Mutant of NameDeps: codename is missing from the dependency list.
NameDepsNoCodename(files, fmt, cn, ds, same) == <<fmt, ds, same, Len(files)>>

\* Mutant of NameDeps: the effect depends on the array, not on its length.
NameDepsWholeArray(files, fmt, cn, ds, same) == <<fmt, cn, ds, same, files>>

\* The dependency list of the name-generation effect.
NameDeps(files, fmt, cn, ds, same) == <<fmt, cn, ds, same, Len(files)>>

\* The re-render after a handler and the effects it flushes.  `files` is the
\* value the handler's updater left in renamedFiles and setFiles tells whether
\* the handler called setRenamedFiles (a new array); the other arguments are
\* the new values of the other state cells and `created` the object URLs the
\* handler created.  The result is the state after
\* the effects have run: the cleanup of the Object-URL effect runs on the old
\* array whenever renamedFiles is a new array, the name-generation effect runs
\* when one of its dependencies changed, and its own setRenamedFiles causes
\* one more render, whose commit cleans up the array it replaces.
Render(files, setFiles, fmt, cn, ds, same, created) ==
    LET b0 == [live |-> liveUrls \cup created, again |-> revokedAgain]
        b1 == IF setFiles THEN CleanupObjectUrls(renamedFiles, b0) ELSE b0
        run == /\ NameDeps(files, fmt, cn, ds, same)
                    # NameDeps(renamedFiles, format, codename, dateString,
                               useSameDateForAll)
               /\ Len(files) # 0
    IN  [files |-> IF run THEN GenerateNames(files, fmt, cn, ds, same) ELSE files,
         browser |-> IF run THEN CleanupObjectUrls(files, b1) ELSE b1,
         swept |-> run]

\* Commit of a handler's state updates.
Commit(files, setFiles, fmt, cn, ds, same, created, handEdited) ==
    LET r == Render(files, setFiles, fmt, cn, ds, same, created)
    IN  /\ renamedFiles' = r.files
        /\ format' = fmt
        /\ codename' = cn
        /\ dateString' = ds
        /\ useSameDateForAll' = same
        /\ liveUrls' = r.browser.live
        /\ revokedAgain' = r.browser.again
        /\ edited' = IF r.swept \/ Len(r.files) = 0 THEN {} ELSE handEdited

(***************************************************************************)
(* Event handlers.                                                         *)
(***************************************************************************)
IntervalMs == 300

\* newFiles.map(file => ...) of handleFiles; `url` is the object URL the next
\* URL.createObjectURL(file) returns.
RECURSIVE FilesToAdd(_, _, _, _)
FilesToAdd(newFiles, url, currentGlobalDate, same) ==
    IF newFiles = <<>> THEN <<>>
    ELSE LET file == Head(newFiles)
             isImage == StartsWith(file.type, S_imagePrefix)
         IN  <<[originalFile |-> file,
                newName |-> <<>>,
                previewUrl |-> IF isImage THEN url ELSE Undefined,
                dateString |-> IF same THEN currentGlobalDate
                               ELSE ToISODate(file.lastModified)]>>
             \o FilesToAdd(Tail(newFiles), IF isImage THEN url + 1 ELSE url,
                           currentGlobalDate, same)

\* Mutant of CurrentGlobalDate: the date is seeded from the last file.
CurrentGlobalDateLast(newFiles) ==
    IF Len(renamedFiles) = 0
    THEN ToISODate(newFiles[Len(newFiles)].lastModified)
    ELSE dateString

\* Mutant of CurrentGlobalDate: the date is seeded in global mode only.
CurrentGlobalDateGlobalModeOnly(newFiles) ==
    IF Len(renamedFiles) = 0 /\ useSameDateForAll
    THEN ToISODate(newFiles[1].lastModified)
    ELSE dateString

\* let currentGlobalDate of handleFiles, after the first-batch branch.
CurrentGlobalDate(newFiles) ==
    IF Len(renamedFiles) = 0
    THEN ToISODate(newFiles[1].lastModified)
    ELSE dateString

PreviewUrls(files) ==
    {files[i].previewUrl : i \in 1..Len(files)} \ {Undefined}

\* Mutant of NoFiles: only a null list returns early; an empty list throws
\* on newFiles[0].lastModified when the collection is empty and goes on
\* otherwise.
NoFilesNullOnly(selectedFiles) ==
    \/ selectedFiles.isNull
    \/ Len(selectedFiles.items) = 0 /\ Len(renamedFiles) = 0

\* if (!selectedFiles || selectedFiles.length === 0) return
NoFiles(selectedFiles) ==
    selectedFiles.isNull \/ Len(selectedFiles.items) = 0

HandleFiles(selectedFiles) ==
    /\ mounted
    /\ events < MaxEvents
    /\ events' = events + 1
    /\ lastOp' = OpRecord("handleFiles", Len(renamedFiles), <<>>, selectedFiles,
                         FALSE)
    /\ UNCHANGED <<mounted, timers, downloads, exportCalls>>
    /\ IF NoFiles(selectedFiles)
       THEN UNCHANGED <<renamedFiles, codename, format, dateString,
                        useSameDateForAll, liveUrls, nextUrl, revokedAgain,
                        edited>>
       ELSE LET newFiles == selectedFiles.items
                currentGlobalDate == CurrentGlobalDate(newFiles)
                filesToAdd == FilesToAdd(newFiles, nextUrl, currentGlobalDate,
                                         useSameDateForAll)
            IN  /\ nextUrl' = nextUrl + Cardinality(PreviewUrls(filesToAdd))
                /\ Commit(renamedFiles \o filesToAdd, TRUE, format, codename,
                          currentGlobalDate, useSameDateForAll,
                          PreviewUrls(filesToAdd), edited)

HandleIndividualNameChange(index, newName) ==
    /\ mounted
    /\ events < MaxEvents
    /\ events' = events + 1
    /\ index \in 1..Len(renamedFiles)
    /\ newName # renamedFiles[index].newName
    /\ lastOp' = Op("handleIndividualNameChange", index, newName)
    /\ UNCHANGED <<mounted, nextUrl, timers, downloads, exportCalls>>
    /\ Commit([renamedFiles EXCEPT ![index].newName = newName], TRUE, format,
              codename, dateString, useSameDateForAll, {},
              edited \cup {index})

HandleIndividualDateChange(index, newDate) ==
    /\ mounted
    /\ events < MaxEvents
    /\ events' = events + 1
    /\ ~useSameDateForAll
    /\ index \in 1..Len(renamedFiles)
    /\ newDate # renamedFiles[index].dateString
    /\ lastOp' = Op("handleIndividualDateChange", index, newDate)
    /\ UNCHANGED <<mounted, nextUrl, timers, downloads, exportCalls>>
    /\ Commit([renamedFiles EXCEPT ![index].dateString = newDate], TRUE,
              format, codename, dateString, useSameDateForAll, {}, edited)

\* Mutant of SyncDates: unchecking keeps the date each entry holds.
SyncDatesKeep(prev, isChecked) ==
    [i \in 1..Len(prev) |->
        [prev[i] EXCEPT
            !.dateString = IF isChecked THEN dateString ELSE prev[i].dateString]]

\* Mutant of SyncDates: checking keeps the date each entry holds.
SyncDatesKeepOnCheck(prev, isChecked) ==
    [i \in 1..Len(prev) |->
        [prev[i] EXCEPT
            !.dateString =
                IF isChecked THEN prev[i].dateString
                ELSE ToISODate(prev[i].originalFile.lastModified)]]

\* The updater handleDateToggleChange passes to setRenamedFiles.
SyncDates(prev, isChecked) ==
    [i \in 1..Len(prev) |->
        [prev[i] EXCEPT
            !.dateString =
                IF isChecked THEN dateString
                ELSE ToISODate(prev[i].originalFile.lastModified)]]

HandleDateToggleChange(isChecked) ==
    /\ mounted
    /\ events < MaxEvents
    /\ events' = events + 1
    /\ isChecked # useSameDateForAll
    /\ lastOp' = OpRecord("handleDateToggleChange", 0, <<>>, NullList,
                         isChecked)
    /\ UNCHANGED <<mounted, nextUrl, timers, downloads, exportCalls>>
    /\ Commit(SyncDates(renamedFiles, isChecked), TRUE, format, codename,
              dateString, isChecked, {}, edited)

SetDateString(value) ==
    /\ mounted
    /\ events < MaxEvents
    /\ events' = events + 1
    /\ useSameDateForAll
    /\ value # dateString
    /\ lastOp' = Op("setDateString", 0, value)
    /\ UNCHANGED <<mounted, nextUrl, timers, downloads, exportCalls>>
    /\ Commit(renamedFiles, FALSE, format, codename, value,
              useSameDateForAll, {}, edited)

SetFormat(value) ==
    /\ mounted
    /\ events < MaxEvents
    /\ events' = events + 1
    /\ value # format
    /\ lastOp' = Op("setFormat", 0, value)
    /\ UNCHANGED <<mounted, nextUrl, timers, downloads, exportCalls>>
    /\ Commit(renamedFiles, FALSE, value, codename, dateString,
              useSameDateForAll, {}, edited)

SetCodename(value) ==
    /\ mounted
    /\ events < MaxEvents
    /\ events' = events + 1
    /\ Includes(format, S_codename)
    /\ value # codename
    /\ lastOp' = Op("setCodename", 0, value)
    /\ UNCHANGED <<mounted, nextUrl, timers, downloads, exportCalls>>
    /\ Commit(renamedFiles, FALSE, format, value, dateString,
              useSameDateForAll, {}, edited)

\* Mutant of ScheduleEach: the delay counts the scheduled entries only.
RECURSIVE ScheduleEachEligible(_, _, _)
ScheduleEachEligible(files, index, call) ==
    IF files = <<>> THEN <<>>
    ELSE IF Trim(Head(files).newName) = <<>>
         THEN ScheduleEachEligible(Tail(files), index, call)
         ELSE <<[call |-> call,
                 index |-> index,
                 remaining |-> index * IntervalMs,
                 renamedFile |-> Head(files)]>>
              \o ScheduleEachEligible(Tail(files), index + 1, call)

\* renamedFiles.forEach((renamedFile, index) => ...) of handleSaveAll: the
\* timers it registers, in order; `index` is the index of Head(files).
RECURSIVE ScheduleEach(_, _, _)
ScheduleEach(files, index, call) ==
    IF files = <<>> THEN <<>>
    ELSE (IF Trim(Head(files).newName) = <<>>
          THEN <<>>
          ELSE <<[call |-> call,
                  index |-> index,
                  remaining |-> index * IntervalMs,
                  renamedFile |-> Head(files)]>>)
         \o ScheduleEach(Tail(files), index + 1, call)

\* Mutant of HandleSaveAll: a call made while timers are pending schedules
\* nothing.
HandleSaveAllGuarded ==
    /\ mounted
    /\ events < MaxEvents
    /\ events' = events + 1
    /\ Len(renamedFiles) # 0
    /\ exportCalls' = exportCalls + 1
    /\ timers' = IF timers = <<>>
                 THEN ScheduleEach(renamedFiles, 0, exportCalls + 1)
                 ELSE timers
    /\ lastOp' = Op("handleSaveAll", Len(timers), <<>>)
    /\ UNCHANGED <<renamedFiles, codename, format, dateString,
                   useSameDateForAll, mounted, liveUrls, nextUrl, downloads,
                   revokedAgain, edited>>

HandleSaveAll ==
    /\ mounted
    /\ events < MaxEvents
    /\ events' = events + 1
    /\ Len(renamedFiles) # 0
    /\ exportCalls' = exportCalls + 1
    /\ timers' = timers \o ScheduleEach(renamedFiles, 0, exportCalls + 1)
    /\ lastOp' = Op("handleSaveAll", Len(timers), <<>>)
    /\ UNCHANGED <<renamedFiles, codename, format, dateString,
                   useSameDateForAll, mounted, liveUrls, nextUrl, downloads,
                   revokedAgain, edited>>

\* Mutant of HandleClear: clearing also cancels the pending timers.
HandleClearCancelling ==
    /\ mounted
    /\ events < MaxEvents
    /\ events' = events + 1
    /\ lastOp' = Op("handleClear", Len(renamedFiles), <<>>)
    /\ timers' = <<>>
    /\ UNCHANGED <<mounted, nextUrl, downloads, exportCalls>>
    /\ Commit(<<>>, TRUE, format, codename, dateString, useSameDateForAll,
              {}, {})

HandleClear ==
    /\ mounted
    /\ events < MaxEvents
    /\ events' = events + 1
    /\ lastOp' = Op("handleClear", Len(renamedFiles), <<>>)
    /\ UNCHANGED <<mounted, nextUrl, timers, downloads, exportCalls>>
    /\ Commit(<<>>, TRUE, format, codename, dateString, useSameDateForAll,
              {}, {})

(***************************************************************************)
(* Timers.                                                                 *)
(***************************************************************************)
\* The pending timer the browser runs next: the earliest registered of those
\* whose delay has elapsed.
DueTimer ==
    CHOOSE i \in 1..Len(timers) :
        /\ timers[i].remaining = 0
        /\ \A j \in 1..(i - 1) : timers[j].remaining # 0

RemoveAt(seq, i) == SubSeq(seq, 1, i - 1) \o SubSeq(seq, i + 1, Len(seq))

\* Mutant of Download: the callback reads the entry now at the timer's index.
DownloadOfCurrent(t, url) ==
    LET rf == IF t.index + 1 \in 1..Len(renamedFiles)
              THEN renamedFiles[t.index + 1]
              ELSE t.renamedFile
    IN  [call |-> t.call,
         index |-> t.index,
         download |-> Trim(rf.newName),
         file |-> rf.originalFile,
         href |-> url]

\* The download the callback triggers: a.href = url of a Blob of the
\* closed-over renamedFile.originalFile, a.download = its trimmed newName.
Download(t, url) ==
    [call |-> t.call,
     index |-> t.index,
     download |-> Trim(t.renamedFile.newName),
     file |-> t.renamedFile.originalFile,
     href |-> url]

\* Mutant of UrlsAfterCallback: the callback does not revoke its URL.
UrlsAfterCallbackNoRevoke(url) == liveUrls \cup {url}

\* The live object URLs after the callback's URL.createObjectURL(blob) and
\* URL.revokeObjectURL(url).
UrlsAfterCallback(url) == (liveUrls \cup {url}) \ {url}

\* The callback handleSaveAll passed to setTimeout.
TimerFires ==
    /\ \E i \in 1..Len(timers) : timers[i].remaining = 0
    /\ LET t == timers[DueTimer]
           url == nextUrl
       IN  /\ nextUrl' = nextUrl + 1
           /\ downloads' = Append(downloads, Download(t, url))
           /\ liveUrls' = UrlsAfterCallback(url)
           /\ timers' = RemoveAt(timers, DueTimer)
           /\ lastOp' = Op("timer", t.index, <<>>)
    /\ UNCHANGED <<renamedFiles, codename, format, dateString,
                   useSameDateForAll, mounted, exportCalls, events,
                   revokedAgain, edited>>

MinRemaining ==
    CHOOSE m \in {timers[i].remaining : i \in 1..Len(timers)} :
        \A i \in 1..Len(timers) : m <= timers[i].remaining

\* Time passes until the next timer is due.
AdvanceClock ==
    /\ timers # <<>>
    /\ \A i \in 1..Len(timers) : timers[i].remaining > 0
    /\ timers' = [i \in 1..Len(timers) |->
                     [timers[i] EXCEPT !.remaining = @ - MinRemaining]]
    /\ lastOp' = Op("clock", 0, <<>>)
    /\ UNCHANGED <<renamedFiles, codename, format, dateString,
                   useSameDateForAll, mounted, liveUrls, nextUrl, downloads,
                   exportCalls, events, revokedAgain, edited>>

\* The component unmounts: the cleanup of the Object-URL effect runs on the
\* array the last render closed over.
Unmount ==
    /\ mounted
    /\ events < MaxEvents
    /\ events' = events + 1
    /\ mounted' = FALSE
    /\ LET b == CleanupObjectUrls(renamedFiles,
                                  [live |-> liveUrls, again |-> revokedAgain])
       IN  /\ liveUrls' = b.live
           /\ revokedAgain' = b.again
    /\ lastOp' = Op("unmount", Len(renamedFiles), <<>>)
    /\ UNCHANGED <<renamedFiles, codename, format, dateString,
                   useSameDateForAll, nextUrl, timers, downloads, exportCalls,
                   edited>>

Next ==
    \/ \E selectedFiles \in FileListInputs : HandleFiles(selectedFiles)
    \/ \E index \in 1..Len(renamedFiles), newName \in NameInputs :
           HandleIndividualNameChange(index, newName)
    \/ \E index \in 1..Len(renamedFiles), newDate \in DateInputs :
           HandleIndividualDateChange(index, newDate)
    \/ \E isChecked \in BOOLEAN : HandleDateToggleChange(isChecked)
    \/ \E value \in DateInputs : SetDateString(value)
    \/ \E i \in 1..Len(renameFormats) : SetFormat(renameFormats[i])
    \/ \E value \in CodenameInputs : SetCodename(value)
    \/ HandleSaveAll
    \/ HandleClear
    \/ TimerFires
    \/ AdvanceClock
    \/ Unmount

Spec == Init /\ [][Next]_vars

\* The browser's event loop runs every timer whose delay has elapsed, and
\* time passes.
FairSpec == Spec /\ WF_vars(TimerFires) /\ WF_vars(AdvanceClock)

(***************************************************************************)
(* The name-generation effect on its own: the rule applied to sample names, *)
(* codenames and dates.                                                    *)
(***************************************************************************)
\* The number of times the effect body runs in one run.
MaxSweeps == 2

N_photo == <<"p","h","o","t","o",".","p","n","g">>
N_report == <<"r","e","p","o","r","t",".","f","i","n","a","l",".","p","d","f">>
N_readme == <<"R","E","A","D","M","E">>
N_dot == <<".">>
N_hidden == <<".","x">>
D_20240305 == <<"2","0","2","4","-","0","3","-","0","5">>
D_20240102 == <<"2","0","2","4","-","0","1","-","0","2">>
S_DRAFT == <<"D","R","A","F","T">>

NameSamples == {N_photo, N_report, N_readme, N_dot, N_hidden}
CodenameSamples == {S_DRAFT, <<>>, <<" ">>, <<" ", "D", " ">>}
DateSamples == {D_20240305, D_20240102, <<>>}

\* One entry, hand-named, under any rule, codename, global date, toggle and
\* entry date.
ComputeInit ==
    /\ \E name \in NameSamples, entryDate \in DateSamples :
           renamedFiles =
               <<[originalFile |-> [name |-> name,
                                    lastModified |-> [day |-> 19787, ms |-> 0],
                                    type |-> S_textPlain],
                  newName |-> <<"x">>,
                  previewUrl |-> Undefined,
                  dateString |-> entryDate]>>
    /\ format \in {renameFormats[i] : i \in 1..Len(renameFormats)}
    /\ codename \in CodenameSamples
    /\ dateString \in DateSamples
    /\ useSameDateForAll \in BOOLEAN
    /\ mounted = TRUE
    /\ liveUrls = {}
    /\ nextUrl = 1
    /\ timers = <<>>
    /\ downloads = <<>>
    /\ exportCalls = 0
    /\ events = 0
    /\ revokedAgain = {}
    /\ edited = {1}
    /\ lastOp = [op |-> "handleIndividualNameChange", index |-> 0,
                 text |-> <<"x">>, files |-> NullList, checked |-> FALSE,
                 edits |-> {}, date |-> dateString, before |-> "mount",
                 streak |-> 0]

\* The body of the name-generation effect, run once more.
RunNameEffect ==
    /\ mounted
    /\ Len(renamedFiles) # 0
    /\ lastOp.index < MaxSweeps
    /\ renamedFiles' = GenerateNames(renamedFiles, format, codename,
                                     dateString, useSameDateForAll)
    /\ edited' = {}
    /\ lastOp' = Op("nameEffect", lastOp.index + 1, <<>>)
    /\ UNCHANGED <<codename, format, dateString, useSameDateForAll, mounted,
                   liveUrls, nextUrl, timers, downloads, exportCalls, events,
                   revokedAgain>>

SpecCompute == ComputeInit /\ [][RunNameEffect]_vars

(***************************************************************************)
(* Properties.                                                             *)
(***************************************************************************)
Entries == 1..Len(renamedFiles)

HasPreview(i) == renamedFiles[i].previewUrl # Undefined

\* The date the rule reads for entry i.
EffectiveDate(i) ==
    IF useSameDateForAll THEN dateString ELSE renamedFiles[i].dateString

\* The rule's output for entry i under the current inputs.
RuleOutput(i) ==
    GeneratedName(format, codename, EffectiveDate(i),
                  renamedFiles[i].originalFile.name)

\* A user event has just run (and not a timer, and not a stuttering step).
UserStep(name) == lastOp'.op = name /\ events' = events + 1

\* C1: while the component is mounted, every preview handle held by an entry
\* of the collection is unreleased, and no two entries hold the same handle.
C1_HeldHandlesUnreleased ==
    mounted =>
        /\ \A i \in Entries : HasPreview(i) => renamedFiles[i].previewUrl \in liveUrls
        /\ \A i, j \in Entries :
               (i # j /\ HasPreview(i) /\ HasPreview(j))
                   => renamedFiles[i].previewUrl # renamedFiles[j].previewUrl

\* C5: no preview handle is released more than once, and none is released
\* while its entry is in the collection of the mounted component.
C5_ReleasedExactlyOnce ==
    /\ revokedAgain = {}
    /\ mounted =>
           \A i \in Entries : HasPreview(i) => renamedFiles[i].previewUrl \in liveUrls

\* C6: once the collection has been cleared or the component has unmounted,
\* every object URL created so far has been released.
C6_NoLeakedHandles ==
    (renamedFiles = <<>> \/ ~mounted) =>
        \A url \in 1..(nextUrl - 1) : url \notin liveUrls

\* C6 witness: a clear of a collection holding two previews has just run.
C6_Witness ==
    /\ lastOp.op = "handleClear"
    /\ lastOp.index = 3
    /\ nextUrl = 3
    /\ renamedFiles = <<>>
    /\ liveUrls = {}

\* C2: every entry not hand-named since the last sweep carries the rule's
\* output for the current rule, codename and effective date.
C2_NameIsRuleOutput ==
    \A i \in Entries : i \notin edited => renamedFiles[i].newName = RuleOutput(i)

\* C3: a task that changes the rule, the codename, the global date, the
\* toggle or the number of entries, and leaves the collection non-empty,
\* leaves every entry, hand-named or not, with the rule's output for the new
\* inputs.
C3_SweepOnDependencyChange ==
    [][(/\ events' = events + 1
        /\ Len(renamedFiles') # 0
        /\ \/ format' # format
           \/ codename' # codename
           \/ dateString' # dateString
           \/ useSameDateForAll' # useSameDateForAll
           \/ Len(renamedFiles') # Len(renamedFiles))
       => \A i \in 1..Len(renamedFiles') :
              renamedFiles'[i].newName = RuleOutput(i)']_vars

\* C3 witness: an ingest into a collection with a hand-named entry has just
\* run, and every entry carries the rule's output.
C3_Witness ==
    /\ lastOp.op = "handleFiles"
    /\ lastOp.edits # {}
    /\ Len(renamedFiles) > lastOp.index
    /\ \A i \in Entries : renamedFiles[i].newName = RuleOutput(i)

\* C4: a name edit changes the newName of its entry and nothing else, a date
\* edit changes the dateString of its entry and nothing else (its newName
\* stays); the other entries and the rule, codename, global date and toggle
\* are unchanged.
C4_DirectEditsOnly ==
    [][/\ UserStep("handleIndividualNameChange") =>
              /\ renamedFiles' =
                     [renamedFiles EXCEPT ![lastOp'.index].newName = lastOp'.text]
              /\ UNCHANGED <<format, codename, dateString, useSameDateForAll>>
       /\ UserStep("handleIndividualDateChange") =>
              /\ renamedFiles' =
                     [renamedFiles EXCEPT ![lastOp'.index].dateString = lastOp'.text]
              /\ UNCHANGED <<format, codename, dateString, useSameDateForAll>>]_vars

\* C4 witness: a date edit has just run and its entry, never hand-named,
\* still carries the name built from the old date.
C4_Witness ==
    /\ lastOp.op = "handleIndividualDateChange"
    /\ lastOp.index \notin edited
    /\ renamedFiles[lastOp.index].dateString = lastOp.text
    /\ renamedFiles[lastOp.index].newName # RuleOutput(lastOp.index)

\* C7: handleSaveAll registers, after the timers already pending, exactly one
\* timer for each entry whose trimmed newName is non-empty, with delay
\* (position among all entries) * 300 ms and that entry as its snapshot, and
\* none for the other entries.
C7_ExportSchedule ==
    [][UserStep("handleSaveAll") =>
          LET n == Len(timers)
              new == SubSeq(timers', n + 1, Len(timers'))
              At(i) == {k \in 1..Len(new) : new[k].index = i - 1}
          IN  /\ SubSeq(timers', 1, n) = timers
              /\ \A k \in 1..Len(new) : new[k].index \in 0..(Len(renamedFiles) - 1)
              /\ \A i \in Entries :
                     IF Trim(renamedFiles[i].newName) # <<>>
                     THEN /\ Cardinality(At(i)) = 1
                          /\ \A k \in At(i) :
                                 /\ new[k].remaining = (i - 1) * IntervalMs
                                 /\ new[k].renamedFile = renamedFiles[i]
                     ELSE At(i) = {}]_vars

\* C7 witness: three entries, the second blank, have just been exported: two
\* timers, at 0 ms and 600 ms.
C7_Witness ==
    /\ lastOp.op = "handleSaveAll"
    /\ Len(renamedFiles) = 3
    /\ Trim(renamedFiles[2].newName) = <<>>
    /\ Len(timers) = 2
    /\ timers[1].index = 0 /\ timers[1].remaining = 0
    /\ timers[2].index = 2 /\ timers[2].remaining = 2 * IntervalMs

PendingIds == {<<timers[i].call, timers[i].index>> : i \in 1..Len(timers)}
FiredIds == {<<downloads[i].call, downloads[i].index>> : i \in 1..Len(downloads)}

\* C8: a pending timer leaves the queue only by firing its download, whatever
\* task runs (a clear and the unmount included), and every pending timer
\* eventually fires.
C8_NeverCancelled ==
    /\ [][/\ PendingIds \subseteq (PendingIds' \cup FiredIds')
          /\ FiredIds \subseteq FiredIds']_vars
    /\ (PendingIds # {}) ~> (PendingIds = {})

\* C8 witness: a timer has just fired while the mounted component's
\* collection is empty, that is after a clear.
C8_Witness ==
    /\ lastOp.op = "timer"
    /\ mounted
    /\ renamedFiles = <<>>
    /\ downloads # <<>>

\* C9: an ingest of a non-empty list into the empty collection sets the global
\* date to the first file's last-modified date; into a non-empty collection
\* it leaves the global date unchanged.
C9_GlobalDateSeed ==
    [][(/\ UserStep("handleFiles")
        /\ ~lastOp'.files.isNull
        /\ Len(lastOp'.files.items) > 0)
       => dateString' =
              IF Len(renamedFiles) = 0
              THEN ToISODate(lastOp'.files.items[1].lastModified)
              ELSE dateString]_vars

\* C9 witness: a first batch of two files with different dates has just been
\* ingested and the global date is the first file's.
C9_Witness ==
    /\ lastOp.op = "handleFiles"
    /\ lastOp.index = 0
    /\ Len(lastOp.files.items) >= 2
    /\ ToISODate(lastOp.files.items[1].lastModified)
           # ToISODate(lastOp.files.items[2].lastModified)
    /\ dateString = ToISODate(lastOp.files.items[1].lastModified)

\* C10: unchecking the toggle leaves every entry with the last-modified date
\* of its own file as dateString, whatever it held before.
C10_ToggleToPerFile ==
    [][(UserStep("handleDateToggleChange") /\ useSameDateForAll
            /\ ~useSameDateForAll')
       => /\ Len(renamedFiles') = Len(renamedFiles)
          /\ \A i \in Entries :
                 /\ renamedFiles'[i].originalFile = renamedFiles[i].originalFile
                 /\ renamedFiles'[i].dateString =
                        ToISODate(renamedFiles[i].originalFile.lastModified)]_vars

\* C10 witness: the toggle has just been unchecked and an entry's date is no
\* longer the global date it held.
C10_Witness ==
    /\ lastOp.op = "handleDateToggleChange"
    /\ ~lastOp.checked
    /\ \E i \in Entries :
           /\ renamedFiles[i].dateString # dateString
           /\ renamedFiles[i].dateString =
                  ToISODate(renamedFiles[i].originalFile.lastModified)

\* C11: checking the toggle leaves every entry with the current global date
\* as dateString and with the name the rule gives for the global date; the
\* global date itself is unchanged.
C11_ToggleToGlobal ==
    [][(UserStep("handleDateToggleChange") /\ ~useSameDateForAll
            /\ useSameDateForAll')
       => /\ dateString' = dateString
          /\ Len(renamedFiles') = Len(renamedFiles)
          /\ \A i \in Entries :
                 /\ renamedFiles'[i].originalFile = renamedFiles[i].originalFile
                 /\ renamedFiles'[i].dateString = dateString
                 /\ renamedFiles'[i].newName =
                        GeneratedName(format, codename, dateString,
                                      renamedFiles[i].originalFile.name)]_vars

\* C11 witness: the toggle has just been checked and an entry whose own
\* file's date differs from the global date holds the global date.
C11_Witness ==
    /\ lastOp.op = "handleDateToggleChange"
    /\ lastOp.checked
    /\ \E i \in Entries :
           /\ ToISODate(renamedFiles[i].originalFile.lastModified) # dateString
           /\ renamedFiles[i].dateString = dateString
           /\ renamedFiles[i].newName = RuleOutput(i)

\* C12: an ingest of a non-empty list appends one entry per file, in input
\* order, and leaves the entries already there as they were, newName
\* included.
C12_IngestAppendsOnly ==
    [][(UserStep("handleFiles") /\ ~NoFiles(lastOp'.files))
       => LET n == Len(renamedFiles)
              items == lastOp'.files.items
          IN  /\ Len(renamedFiles') = n + Len(items)
              /\ \A i \in 1..n : renamedFiles'[i] = renamedFiles[i]
              /\ \A k \in 1..Len(items) :
                     renamedFiles'[n + k].originalFile = items[k]]_vars

\* C17: an ingest of an empty or absent list changes nothing: not the
\* entries, not the settings, not the object URLs, not the timers.
C17_EmptyIngestNoOp ==
    [][(/\ UserStep("handleFiles")
        /\ (lastOp'.files.isNull \/ Len(lastOp'.files.items) = 0))
       => UNCHANGED <<renamedFiles, codename, format, dateString,
                      useSameDateForAll, mounted, liveUrls, nextUrl, timers,
                      downloads, exportCalls, revokedAgain, edited>>]_vars

\* C17 witness: an empty list has just been ingested into the empty
\* collection, and the global date is still the initial one.
C17_Witness ==
    /\ lastOp.op = "handleFiles"
    /\ ~lastOp.files.isNull
    /\ lastOp.files.items = <<>>
    /\ renamedFiles = <<>>
    /\ dateString \in {ToISODate(now) : now \in Nows}
    /\ nextUrl = 1

\* C18: the downloads of one handleSaveAll call are triggered in collection
\* order, the timers of the call still pending are for later entries, and
\* the object URL of a triggered download is released.
C18_DownloadsInOrder ==
    /\ \A a, b \in 1..Len(downloads) :
           (a < b /\ downloads[a].call = downloads[b].call)
               => downloads[a].index < downloads[b].index
    /\ \A a \in 1..Len(downloads) : \A k \in 1..Len(timers) :
           downloads[a].call = timers[k].call
               => downloads[a].index < timers[k].index
    /\ \A a \in 1..Len(downloads) : downloads[a].href \notin liveUrls

\* C18 witness: three downloads of one call have been triggered.
C18_Witness ==
    /\ lastOp.op = "timer"
    /\ Len(downloads) = 3
    /\ downloads[1].call = downloads[3].call
    /\ downloads[1].index = 0
    /\ downloads[3].index = 2

\* C20: a timer keeps the entry it was registered with, whatever runs while
\* it is pending, and the download it triggers carries that entry's trimmed
\* newName and its file.
C20_ExportUsesSnapshot ==
    [][/\ UserStep("handleSaveAll") =>
              \A k \in (Len(timers) + 1)..Len(timers') :
                  timers'[k].renamedFile = renamedFiles[timers'[k].index + 1]
       /\ \A i \in 1..Len(timers) : \A j \in 1..Len(timers') :
              (timers[i].call = timers'[j].call
                   /\ timers[i].index = timers'[j].index)
                  => timers'[j].renamedFile = timers[i].renamedFile
       /\ Len(downloads') = Len(downloads) + 1 =>
              LET d == downloads'[Len(downloads')]
              IN  \E i \in 1..Len(timers) :
                      /\ timers[i].call = d.call
                      /\ timers[i].index = d.index
                      /\ d.download = Trim(timers[i].renamedFile.newName)
                      /\ d.file = timers[i].renamedFile.originalFile]_vars

\* C20 witness: a download has just been triggered under a name that is no
\* longer the trimmed newName of the entry at its index.
C20_Witness ==
    /\ lastOp.op = "timer"
    /\ mounted
    /\ LET d == downloads[Len(downloads)]
       IN  /\ d.index + 1 \in Entries
           /\ d.download # Trim(renamedFiles[d.index + 1].newName)

(***************************************************************************)
(* Properties of the rule, under SpecCompute.                              *)
(***************************************************************************)
Swept == lastOp.op = "nameEffect"

NotDash(c) == c # "-"

\* The date with its '-' separators removed.
Compact(date) == SelectSeq(date, NotDash)

\* The position of the last '.' of name, 0 when there is none.
LastDot(name) ==
    IF \E i \in 1..Len(name) : name[i] = "."
    THEN CHOOSE i \in 1..Len(name) :
             /\ name[i] = "."
             /\ \A j \in (i + 1)..Len(name) : name[j] # "."
    ELSE 0

\* The name_date template: the date goes before the last '.', or at the end
\* of a name without '.'.
NameDateTemplate(name, date) ==
    IF LastDot(name) = 0
    THEN name \o <<"_">> \o date
    ELSE SubSeq(name, 1, LastDot(name) - 1) \o <<"_">> \o date \o <<".">>
         \o SubSeq(name, LastDot(name) + 1, Len(name))

\* The four templates, with `code` as the codename segment.
Template(fmt, code, date, name) ==
    IF fmt = S_date_codename_name THEN date \o <<"_">> \o code \o <<"_">> \o name
    ELSE IF fmt = S_date_name THEN date \o <<"_">> \o name
    ELSE IF fmt = S_codename_date_name THEN code \o <<"_">> \o date \o <<"_">> \o name
    ELSE NameDateTemplate(name, date)

\* C13 as claimed: after a sweep every name is its rule's template over the
\* compacted effective date, the original name and the codename as typed
\* (the literal CODENAME when it is blank).
C13_TemplateCodenameAsTyped ==
    Swept =>
        \A i \in Entries :
            renamedFiles[i].newName =
                Template(format,
                         IF Trim(codename) = <<>> THEN S_CODENAME ELSE codename,
                         Compact(EffectiveDate(i)),
                         renamedFiles[i].originalFile.name)

\* C13 amended: as above, with the codename trimmed of surrounding white
\* space.
C13_TemplateCodenameTrimmed ==
    Swept =>
        \A i \in Entries :
            renamedFiles[i].newName =
                Template(format,
                         IF Trim(codename) = <<>> THEN S_CODENAME
                         ELSE Trim(codename),
                         Compact(EffectiveDate(i)),
                         renamedFiles[i].originalFile.name)

\* C13 witness: compute(date_codename_name, "DRAFT", "2024-03-05",
\* "photo.png") = "20240305_DRAFT_photo.png".
C13_Witness ==
    /\ Swept
    /\ format = S_date_codename_name
    /\ codename = S_DRAFT
    /\ useSameDateForAll /\ dateString = D_20240305
    /\ renamedFiles[1].originalFile.name = N_photo
    /\ renamedFiles[1].newName = <<"2","0","2","4","0","3","0","5","_","D","R","A","F","T","_","p","h","o","t","o",".","p","n","g">>

\* C14: under name_date a name with a '.' is split at its last '.' only, and
\* a name without '.' gets '_' and the date appended.
C14_NameDateLastDot ==
    (Swept /\ format = S_name_date) =>
        \A i \in Entries :
            LET name == renamedFiles[i].originalFile.name
                date == Compact(EffectiveDate(i))
                k == LastDot(name)
            IN  IF k = 0
                THEN renamedFiles[i].newName = name \o <<"_">> \o date
                ELSE renamedFiles[i].newName =
                         SubSeq(name, 1, k - 1) \o <<"_">> \o date \o <<".">>
                         \o SubSeq(name, k + 1, Len(name))

\* C14 witness: "report.final.pdf" with "2024-01-02" gives
\* "report.final_20240102.pdf".
C14_Witness ==
    /\ Swept
    /\ format = S_name_date
    /\ useSameDateForAll /\ dateString = D_20240102
    /\ renamedFiles[1].originalFile.name = N_report
    /\ renamedFiles[1].newName = <<"r","e","p","o","r","t",".","f","i","n","a","l","_","2","0","2","4","0","1","0","2",".","p","d","f">>

\* C15: with a codename that is empty after trimming, the two rules that
\* embed the codename put the literal CODENAME in its place.
C15_BlankCodenameFallback ==
    (Swept /\ Trim(codename) = <<>>) =>
        \A i \in Entries :
            LET name == renamedFiles[i].originalFile.name
                date == Compact(EffectiveDate(i))
            IN  /\ format = S_date_codename_name =>
                       renamedFiles[i].newName =
                           date \o <<"_">> \o S_CODENAME \o <<"_">> \o name
                /\ format = S_codename_date_name =>
                       renamedFiles[i].newName =
                           S_CODENAME \o <<"_">> \o date \o <<"_">> \o name

\* C15 witness: a one-space codename under codename_date_name.
C15_Witness ==
    /\ Swept
    /\ codename = <<" ">>
    /\ format = S_codename_date_name
    /\ SubSeq(renamedFiles[1].newName, 1, Len(S_CODENAME) + 1)
           = S_CODENAME \o <<"_">>

\* C16: a sweep changes nothing but newName, and a sweep that follows a sweep
\* changes nothing at all.
C16_SweepIdempotent ==
    [][lastOp'.op = "nameEffect" =>
          /\ UNCHANGED <<format, codename, dateString, useSameDateForAll>>
          /\ Len(renamedFiles') = Len(renamedFiles)
          /\ \A i \in Entries :
                 /\ renamedFiles'[i].originalFile = renamedFiles[i].originalFile
                 /\ renamedFiles'[i].dateString = renamedFiles[i].dateString
                 /\ renamedFiles'[i].previewUrl = renamedFiles[i].previewUrl
          /\ lastOp.op = "nameEffect" => renamedFiles' = renamedFiles]_vars

\* C16 witness: the sweep has run twice.
C16_Witness ==
    /\ Swept
    /\ lastOp.index = 2
    /\ renamedFiles[1].newName = RuleOutput(1)

\* C19 as claimed: under name_date the name "." is not split: "._" and the
\* date.
C19_SoleDotNotSplit ==
    (Swept /\ format = S_name_date) =>
        \A i \in Entries :
            renamedFiles[i].originalFile.name = N_dot =>
                renamedFiles[i].newName
                    = <<".", "_">> \o Compact(EffectiveDate(i))

\* C19 amended: under name_date the name "." is split like any name with a
\* '.': an empty stem, '_', the date, '.', an empty extension.
C19_SoleDotSplit ==
    (Swept /\ format = S_name_date) =>
        \A i \in Entries :
            renamedFiles[i].originalFile.name = N_dot =>
                renamedFiles[i].newName
                    = <<"_">> \o Compact(EffectiveDate(i)) \o <<".">>

\* C19 witness: "." with "2024-01-02" has been renamed.
C19_Witness ==
    /\ Swept
    /\ format = S_name_date
    /\ renamedFiles[1].originalFile.name = N_dot
    /\ useSameDateForAll /\ dateString = D_20240102
    /\ renamedFiles[1].newName = <<"_","2","0","2","4","0","1","0","2",".">>

\* C21: an ingest of a non-empty list into the empty collection sets the
\* global date to the first file's date whatever the toggle and whoever set
\* the date before; every new entry's date is its own file's date in
\* per-file mode and the global date (as just seeded, if it was) in global
\* mode.
C21_SeedWhateverToggle ==
    [][(/\ UserStep("handleFiles")
        /\ ~lastOp'.files.isNull
        /\ Len(lastOp'.files.items) > 0)
       => LET n == Len(renamedFiles)
              items == lastOp'.files.items
          IN  /\ n = 0 => dateString' = ToISODate(items[1].lastModified)
              /\ Len(renamedFiles') = n + Len(items)
              /\ \A k \in 1..Len(items) :
                     renamedFiles'[n + k].dateString =
                         IF useSameDateForAll THEN dateString'
                         ELSE ToISODate(items[k].lastModified)]_vars

\* C21 witness: right after a clear, with a global date the user had picked,
\* a batch has been ingested and the global date is its first file's date.
C21_Witness ==
    /\ lastOp.op = "handleFiles"
    /\ lastOp.index = 0
    /\ lastOp.before = "handleClear"
    /\ lastOp.date \in DateInputs
    /\ renamedFiles # <<>>
    /\ dateString = ToISODate(renamedFiles[1].originalFile.lastModified)
    /\ dateString # lastOp.date

\* The calls of handleSaveAll made in a row on the collection as it is now.
StreakCalls == (exportCalls - lastOp.streak + 1)..exportCalls

\* The triggers, pending or fired, of call c for the entry at index i.
TriggersOf(c, i) ==
    Cardinality({k \in 1..Len(timers) :
                    timers[k].call = c /\ timers[k].index = i})
    + Cardinality({k \in 1..Len(downloads) :
                      downloads[k].call = c /\ downloads[k].index = i})

\* The triggers, pending or fired, of the calls in StreakCalls.
StreakTriggers ==
    Cardinality({k \in 1..Len(timers) : timers[k].call \in StreakCalls})
    + Cardinality({k \in 1..Len(downloads) :
                      downloads[k].call \in StreakCalls})

Eligible == {i \in Entries : Trim(renamedFiles[i].newName) # <<>>}

\* C22: k calls of handleSaveAll in a row on a collection with m eligible
\* entries make k * m triggers, one per call and eligible entry, whether or
\* not earlier triggers are still pending; and a timer that fires is one
\* whose delay is the least of those pending, so the calls' triggers
\* interleave by their scheduled times.
C22_NoInProgressGuard ==
    /\ [](/\ StreakTriggers = lastOp.streak * Cardinality(Eligible)
          /\ \A c \in StreakCalls, i \in Entries :
                 TriggersOf(c, i - 1) = IF i \in Eligible THEN 1 ELSE 0)
    /\ [][lastOp'.op = "timer" =>
             \E k \in 1..Len(timers) :
                 /\ downloads' = Append(downloads, downloads'[Len(downloads')])
                 /\ downloads'[Len(downloads')].call = timers[k].call
                 /\ downloads'[Len(downloads')].index = timers[k].index
                 /\ timers' = RemoveAt(timers, k)
                 /\ \A j \in 1..Len(timers) :
                        /\ timers[k].remaining <= timers[j].remaining
                        /\ timers[j].remaining = timers[k].remaining => k <= j]_vars

\* C22 witness: two calls in a row on two eligible entries, the second made
\* while the first's timers were pending, have fired four downloads, the
\* calls taking turns.
C22_Witness ==
    /\ exportCalls = 2
    /\ lastOp.streak = 2
    /\ Cardinality(Eligible) = 2
    /\ timers = <<>>
    /\ Len(downloads) = 4
    /\ <<downloads[1].call, downloads[2].call, downloads[3].call,
         downloads[4].call>> = <<1, 2, 1, 2>>
    /\ <<downloads[1].index, downloads[2].index, downloads[3].index,
         downloads[4].index>> = <<0, 0, 1, 1>>

====
